---------------------------- MODULE Spec2Model ----------------------------
(***************************************************************************)
(* A model of iam-role-manager: the controller's Reconcile with the        *)
(* package-level CreateIAMRole / DeleteIAMRole / SyncIAMRole functions     *)
(* (pkg/controller/iamrole/iamrole_controller.go), and the struct-scoped   *)
(* IAMClient with its paginating readers (the later client file).          *)
(*                                                                         *)
(* Every remote call site of the code is one action.  A call may fail      *)
(* because of the remote state (NoSuchEntity, EntityAlreadyExists,         *)
(* DeleteConflict) or because of an injected transport fault.              *)
(*                                                                         *)
(* Strings that the code only compares or passes through are TLA+ strings. *)
(* Policy references and ARNs, which the code searches (strings.Contains)  *)
(* and builds (fmt.Sprintf), are sequences of tokens.                      *)
(***************************************************************************)
EXTENDS Integers, Sequences, FiniteSets, TLC

VARIABLES
    store,      \* the desired-state store: the IAMRole document of RoleName
    remote,     \* the IAM service's state of the role RoleName
    iamRole,    \* the in-memory IAMRole object of the running invocation
    branch,     \* which path the running (or last) invocation took
    pc,         \* the call site the running invocation is at, or "idle"
    loc,        \* the local variables of the running functions
    calls,      \* the calls issued by the running (or last) invocation, in order
    events,     \* the notifications emitted by the running (or last) invocation
    result,     \* the error returned by the last invocation (Nil: success)
    faults,     \* transport faults injected so far
    passes,     \* invocations started so far
    entered     \* the previous invocation's path and result, and the role as this one found it

vars == <<store, remote, iamRole, branch, pc, loc, calls, events, result, faults, passes, entered>>

-----------------------------------------------------------------------------
(* Bounds *)

MaxFaults == 2
MaxPasses == 2
PageSize == 2
\* the longest listing a paginating reader accumulates before its next request
MaxListed == 8

-----------------------------------------------------------------------------
(* Values *)

RoleName == "sample-role"
Account == "123456789012"
RoleArn == "arn:aws:iam::123456789012:role/sample-role"
RoleId == "AROASAMPLEROLE"

\* error values: the sequence of the failures an error reports; nil is empty
Nil == <<>>
NoDoc == "(none)"
EmptyMarker == <<>>

Failure(op, target) == [op |-> op, target |-> target]

\* tokens of policy references and ARNs
ArnMarker == "arn:aws:iam"
PolicyArnOf(account, nameTokens) == <<ArnMarker, "::", account, ":policy/">> \o nameTokens

AwsReadOnly == PolicyArnOf("aws", <<"ReadOnly">>)
AwsAdmin == PolicyArnOf("aws", <<"Admin">>)
CustAdmin == PolicyArnOf(Account, <<"Admin">>)
CustTeamDev == PolicyArnOf(Account, <<"team/", "Dev">>)
CustAudit == PolicyArnOf(Account, <<"Audit">>)

\* the managed policies that exist at the service, in its listing order
PolicyOrder == <<AwsAdmin, AwsReadOnly, CustAdmin, CustAudit, CustTeamDev>>
ManagedPolicies == {PolicyOrder[i] : i \in DOMAIN PolicyOrder}

\* the friendly name the service reports for a policy: the ARN's last segment
PolicyNameOf(arn) == <<arn[Len(arn)]>>

\* inline policy names, in the service's listing order
InlineOrder == <<"p1", "p2", "p3", "p4", "p5">>
InlineNames == {InlineOrder[i] : i \in DOMAIN InlineOrder}

ZeroSpec == [description |-> "", path |-> "", maxSessionDuration |-> 0,
             trustRelationship |-> "", inlinePolicy |-> <<>>, policies |-> <<>>]
ZeroStatus == [arn |-> "", roleId |-> ""]
ZeroIAMRole == [name |-> "", spec |-> ZeroSpec, status |-> ZeroStatus]

NoInline == [n \in InlineNames |-> NoDoc]
NoRole == [exists |-> FALSE, description |-> "", path |-> "", maxSessionDuration |-> 0,
           trust |-> "", inline |-> NoInline, attached |-> {}, emptyMarker |-> FALSE]


-----------------------------------------------------------------------------
(* Inputs: the desired-state documents and the remote states a run starts from *)

BaseInline == << [name |-> "p1", value |-> "D1"] >>
BasePolicies == << <<"Admin">> >>

InlineChoices == { <<>>,
                   BaseInline,
                   << [name |-> "p1", value |-> "D1"], [name |-> "p1", value |-> "D2"] >>,
                   << [name |-> "p1", value |-> "D1"], [name |-> "p2", value |-> "D2"] >> }

PolicyChoices == { <<>>,
                   BasePolicies,
                   << AwsReadOnly >>,
                   << <<"team/", "Dev">> >>,
                   << <<"Admin">>, AwsReadOnly >> }

SpecOf(inl, pol) == [description |-> "d1", path |-> "/", maxSessionDuration |-> 3600,
                     trustRelationship |-> "T1", inlinePolicy |-> inl, policies |-> pol]

SpecChoices == {SpecOf(inl, BasePolicies) : inl \in InlineChoices}
                   \cup {SpecOf(BaseInline, pol) : pol \in PolicyChoices}

RemoteOf(d, m, t, inl, att) == [exists |-> TRUE, description |-> d, path |-> "/",
                                maxSessionDuration |-> m, trust |-> t,
                                inline |-> inl, attached |-> att, emptyMarker |-> FALSE]

RemoteInlineChoices == { NoInline,
                         [NoInline EXCEPT !["p1"] = "D2"],
                         [NoInline EXCEPT !["p1"] = "D1", !["p3"] = "D1"],
                         [n \in InlineNames |-> "D1"] }

RemoteAttachedChoices == { {}, {AwsAdmin}, {CustAdmin, AwsReadOnly}, ManagedPolicies }

RemoteChoices == {NoRole}
                   \cup {RemoteOf(d, m, t, NoInline, {}) :
                            d \in {"d1", "d2"}, m \in {3600, 7200}, t \in {"T1", "T2"}}
                   \cup {RemoteOf("d1", 3600, "T1", inl, att) :
                            inl \in RemoteInlineChoices, att \in RemoteAttachedChoices}

-----------------------------------------------------------------------------
(* The IAM service and the identity service, as the code's calls see them *)

\* a transport fault may be injected while the budget lasts
Transport == IF faults < MaxFaults THEN {TRUE, FALSE} ELSE {TRUE}
Charge(ok) == faults' = IF ok THEN faults ELSE faults + 1

Min(a, b) == IF a < b THEN a ELSE b

InlineListing(r) == SelectSeq(InlineOrder, LAMBDA n : r.inline[n] # NoDoc)
AttachedListing(r) ==
    LET arns == SelectSeq(PolicyOrder, LAMBDA a : a \in r.attached)
    IN  [i \in DOMAIN arns |-> [PolicyArn |-> arns[i], PolicyName |-> PolicyNameOf(arns[i])]]

\* a list request: with no Marker field, or with the Marker given
NoMarkerInput == [withMarker |-> FALSE, marker |-> EmptyMarker]
MarkerInput(m) == [withMarker |-> TRUE, marker |-> m]

\* an explicit empty Marker is rejected by the service (ValidationError)
ListInputValid(r, input) == r.exists /\ (input.withMarker => input.marker # EmptyMarker)

PageStart(input) == IF input.withMarker THEN input.marker[1] ELSE 1
PageOf(listing, input) ==
    LET start == PageStart(input)
        stop == Min(Len(listing), start + PageSize - 1)
    IN  [items |-> SubSeq(listing, start, stop),
         IsTruncated |-> stop < Len(listing),
         Marker |-> IF stop < Len(listing) THEN <<stop + 1>> ELSE EmptyMarker]

\* the page as the service r answers: a service with emptyMarker sends its
\* truncated pages with an empty Marker
ServedPage(r, listing, input) ==
    LET page == PageOf(listing, input)
    IN  IF r.emptyMarker /\ page.IsTruncated THEN [page EXCEPT !.Marker = EmptyMarker]
        ELSE page

CreateRoleOK(r) == ~r.exists
CreateRoleApply(r, spec) == [exists |-> TRUE, description |-> spec.description,
                             path |-> spec.path,
                             maxSessionDuration |-> spec.maxSessionDuration,
                             trust |-> spec.trustRelationship,
                             inline |-> NoInline, attached |-> {},
                             emptyMarker |-> r.emptyMarker]
DeleteRoleOK(r) == r.exists /\ r.inline = NoInline /\ r.attached = {}
PutRolePolicyApply(r, name, doc) == [r EXCEPT !.inline[name] = doc]
DeleteRolePolicyOK(r, name) == r.exists /\ r.inline[name] # NoDoc
DeleteRolePolicyApply(r, name) == [r EXCEPT !.inline[name] = NoDoc]
AttachRolePolicyOK(r, arn) == r.exists /\ arn \in ManagedPolicies
AttachRolePolicyApply(r, arn) == [r EXCEPT !.attached = @ \cup {arn}]
DetachRolePolicyOK(r, arn) == r.exists /\ arn \in r.attached
DetachRolePolicyApply(r, arn) == [r EXCEPT !.attached = @ \ {arn}]

-----------------------------------------------------------------------------
(* Helpers of the code *)

\* in(list, x): membership by exact comparison
In(list, x) == \E i \in DOMAIN list : list[i] = x

\* isArn: strings.Contains(policy, "arn:aws:iam")
isArn(policy) == \E i \in DOMAIN policy : policy[i] = ArnMarker

\* a variant of getArn that expands every reference
getArn_alwaysExpands(policyName, account) == PolicyArnOf(account, policyName)

\* getArn's result when the identity call answered with `account`
getArn(policyName, account) ==
    IF isArn(policyName) THEN policyName ELSE PolicyArnOf(account, policyName)

\* the record of one call: what was called, for which role and target, and
\* whether the service answered without error
CallRecord(op, role, target, ok) == [op |-> op, role |-> role, target |-> target, ok |-> ok]

\* a call of the running invocation: `transport` is the injected outcome,
\* `accepted` whether the service accepts the request in its present state
Invoke(op, target, transport, accepted) ==
    /\ Charge(transport)
    /\ calls' = Append(calls, CallRecord(op, iamRole.name, target, transport /\ accepted))

LocInit == [idx |-> 0, listed |-> <<>>, errors |-> Nil, ierrors |-> Nil, err |-> Nil,
            policyArn |-> <<>>, marker |-> EmptyMarker, isTruncated |-> FALSE,
            awsRole |-> NoRole]

Init ==
    /\ store \in {[exists |-> TRUE, spec |-> sp, status |-> ZeroStatus] : sp \in SpecChoices}
    /\ remote \in RemoteChoices
    /\ iamRole = ZeroIAMRole
    /\ branch = "none"
    /\ pc = "idle"
    /\ loc = LocInit
    /\ calls = <<>>
    /\ events = <<>>
    /\ result = Nil
    /\ faults = 0
    /\ passes = 0
    /\ entered = [branch |-> "none", result |-> Nil, remote |-> remote]

-----------------------------------------------------------------------------
(* The controller: Reconcile and the package-level functions it calls *)

\* a variant of Reconcile_GetBranch that does not tell IsNotFound apart
Reconcile_GetBranch_ignoresNotFound(readOK, found) ==
    IF ~readOK THEN "readerror" ELSE "found"

\* Reconcile: what the result of reading the document leads to
Reconcile_GetBranch(readOK, found) ==
    IF ~readOK THEN "readerror"      \* any other error: returned as it is
    ELSE IF ~found THEN "teardown"   \* errors.IsNotFound: DeleteIAMRole
    ELSE "found"

\* Reconcile, from its entry to the branch the read of the document selects
Reconcile_Request ==
    /\ pc = "idle"
    /\ entered' = [branch |-> branch, result |-> result, remote |-> remote]
    /\ loc' = LocInit
    /\ events' = <<>>
    /\ \E ok \in Transport :
         /\ Charge(ok)
         /\ calls' = << CallRecord("Get", RoleName, <<RoleName>>, ok /\ store.exists) >>
         /\ branch' = Reconcile_GetBranch(ok, store.exists)
         /\ IF branch' = "readerror"
            THEN /\ iamRole' = ZeroIAMRole
                 /\ result' = << Failure("Get", <<RoleName>>) >>
                 /\ pc' = "idle"
            ELSE IF branch' = "teardown"
            THEN \* the object holds the request's name and nothing else
                 /\ iamRole' = [ZeroIAMRole EXCEPT !.name = RoleName]
                 /\ result' = Nil
                 /\ pc' = "removeInlinePolicies"
            ELSE /\ iamRole' = [name |-> RoleName, spec |-> store.spec, status |-> store.status]
                 /\ result' = Nil
                 /\ pc' = "iamRoleExists"
    /\ UNCHANGED <<store, remote>>

\* Reconcile: a request for RoleName is delivered and the document is read
Reconcile_Get ==
    /\ passes < MaxPasses
    /\ passes' = passes + 1
    /\ Reconcile_Request

\* iamRoleExists: GetRole answered without error
iamRoleExists ==
    /\ pc = "iamRoleExists"
    /\ \E ok \in Transport :
         /\ Invoke("GetRole", <<iamRole.name>>, ok, remote.exists)
         /\ IF ok /\ remote.exists
            THEN branch' = "sync" /\ pc' = "SyncIAMRole_UpdateRole"
            ELSE branch' = "create" /\ pc' = "CreateIAMRole_CreateRole"
    /\ UNCHANGED <<store, remote, iamRole, loc, events, result, passes, entered>>

\* a variant of CreateIAMRole_createRoleFailed that drops the error check
CreateIAMRole_createRoleFailed_never(err) == FALSE

\* CreateIAMRole: CreateRole returned an error
CreateIAMRole_createRoleFailed(err) == err # Nil

\* CreateIAMRole: the CreateRole call and the status it fills in
CreateIAMRole_CreateRole ==
    /\ pc = "CreateIAMRole_CreateRole"
    /\ \E ok \in Transport :
         LET err == IF ok /\ CreateRoleOK(remote)
                    THEN Nil ELSE << Failure("CreateRole", <<iamRole.name>>) >>
         IN  /\ Invoke("CreateRole", <<iamRole.name>>, ok, CreateRoleOK(remote))
             /\ IF CreateIAMRole_createRoleFailed(err)
                THEN /\ loc' = [loc EXCEPT !.err = err]
                     /\ pc' = "Reconcile_afterCreate"
                     /\ UNCHANGED <<remote, iamRole>>
                ELSE /\ remote' = CreateRoleApply(remote, iamRole.spec)
                     /\ iamRole' = [iamRole EXCEPT !.status = [arn |-> RoleArn, roleId |-> RoleId]]
                     /\ loc' = [loc EXCEPT !.idx = 1, !.ierrors = Nil]
                     /\ pc' = "createInlinePolicies"
    /\ UNCHANGED <<store, branch, events, result, passes, entered>>

\* SyncIAMRole: UpdateRole with the description and the session duration
SyncIAMRole_UpdateRole ==
    /\ pc = "SyncIAMRole_UpdateRole"
    /\ \E ok \in Transport :
         /\ Invoke("UpdateRole", <<iamRole.name>>, ok, remote.exists)
         /\ IF ok /\ remote.exists
            THEN /\ remote' = [remote EXCEPT
                                  !.description = iamRole.spec.description,
                                  !.maxSessionDuration = iamRole.spec.maxSessionDuration]
                 /\ pc' = "SyncIAMRole_UpdateAssumeRolePolicy"
                 /\ loc' = loc
            ELSE /\ loc' = [loc EXCEPT !.err = << Failure("UpdateRole", <<iamRole.name>>) >>]
                 /\ pc' = "Reconcile_afterSync"
                 /\ remote' = remote
    /\ UNCHANGED <<store, iamRole, branch, events, result, passes, entered>>

\* SyncIAMRole: UpdateAssumeRolePolicy; its error is overwritten by the next
\* assignment to err before anything reads it
SyncIAMRole_UpdateAssumeRolePolicy ==
    /\ pc = "SyncIAMRole_UpdateAssumeRolePolicy"
    /\ \E ok \in Transport :
         /\ Invoke("UpdateAssumeRolePolicy", <<iamRole.name>>, ok, remote.exists)
         /\ remote' = IF ok /\ remote.exists
                      THEN [remote EXCEPT !.trust = iamRole.spec.trustRelationship]
                      ELSE remote
    /\ pc' = "removeInlinePolicies"
    /\ UNCHANGED <<store, iamRole, branch, loc, events, result, passes, entered>>

\* removeInlinePolicies: one ListRolePolicies request, with no Marker.
\* SyncIAMRole returns its error; DeleteIAMRole overwrites it.
removeInlinePolicies_List ==
    /\ pc = "removeInlinePolicies"
    /\ \E ok \in Transport :
         /\ Invoke("ListRolePolicies", <<iamRole.name>>, ok, ListInputValid(remote, NoMarkerInput))
         /\ IF ok /\ ListInputValid(remote, NoMarkerInput)
            THEN /\ loc' = [loc EXCEPT
                               !.listed = PageOf(InlineListing(remote), NoMarkerInput).items,
                               !.idx = 1, !.ierrors = Nil]
                 /\ pc' = "removeInlinePolicies_loop"
            ELSE IF branch = "sync"
            THEN /\ loc' = [loc EXCEPT !.err = << Failure("ListRolePolicies", <<iamRole.name>>) >>]
                 /\ pc' = "Reconcile_afterSync"
            ELSE /\ loc' = loc
                 /\ pc' = "DeleteIAMRole_ListAttachedRolePolicies"
    /\ UNCHANGED <<store, remote, iamRole, branch, events, result, passes, entered>>

\* removeInlinePolicies: DeleteRolePolicy for each listed name
removeInlinePolicies_Delete ==
    /\ pc = "removeInlinePolicies_loop"
    /\ loc.idx <= Len(loc.listed)
    /\ LET policy == loc.listed[loc.idx] IN
         /\ \E ok \in Transport :
              /\ Invoke("DeleteRolePolicy", <<policy>>, ok, DeleteRolePolicyOK(remote, policy))
              /\ IF ok /\ DeleteRolePolicyOK(remote, policy)
                 THEN /\ remote' = DeleteRolePolicyApply(remote, policy)
                      /\ loc' = [loc EXCEPT !.idx = @ + 1]
                 ELSE /\ remote' = remote
                      /\ loc' = [loc EXCEPT !.idx = @ + 1,
                                    !.ierrors = Append(@, Failure("DeleteRolePolicy", <<policy>>))]
    /\ UNCHANGED <<store, iamRole, branch, pc, events, result, passes, entered>>

\* removeInlinePolicies returns; SyncIAMRole returns its error, DeleteIAMRole
\* overwrites it
removeInlinePolicies_return ==
    /\ pc = "removeInlinePolicies_loop"
    /\ loc.idx > Len(loc.listed)
    /\ IF branch = "sync"
       THEN IF loc.ierrors # Nil
            THEN /\ loc' = [loc EXCEPT !.err = loc.ierrors]
                 /\ pc' = "Reconcile_afterSync"
            ELSE /\ loc' = [loc EXCEPT !.idx = 1, !.ierrors = Nil]
                 /\ pc' = "createInlinePolicies"
       ELSE /\ loc' = loc
            /\ pc' = "DeleteIAMRole_ListAttachedRolePolicies"
    /\ UNCHANGED <<store, remote, iamRole, branch, calls, events, result, faults, passes, entered>>

\* a variant of createInlinePolicies_done that leaves the loop after one policy
createInlinePolicies_done_afterFirst(idx, inlinePolicy) == idx > Min(1, Len(inlinePolicy))

\* createInlinePolicies: the range over the spec's inline policies is exhausted
createInlinePolicies_done(idx, inlinePolicy) == idx > Len(inlinePolicy)

\* createInlinePolicies: PutRolePolicy for each inline policy of the spec
createInlinePolicies_Put ==
    /\ pc = "createInlinePolicies"
    /\ ~createInlinePolicies_done(loc.idx, iamRole.spec.inlinePolicy)
    /\ LET inlinePolicy == iamRole.spec.inlinePolicy[loc.idx] IN
         /\ \E ok \in Transport :
              /\ Invoke("PutRolePolicy", <<inlinePolicy.name>>, ok, remote.exists)
              /\ IF ok /\ remote.exists
                 THEN /\ remote' = PutRolePolicyApply(remote, inlinePolicy.name, inlinePolicy.value)
                      /\ loc' = [loc EXCEPT !.idx = @ + 1]
                 ELSE /\ remote' = remote
                      /\ loc' = [loc EXCEPT !.idx = @ + 1,
                                    !.ierrors = Append(@, Failure("PutRolePolicy", <<inlinePolicy.name>>))]
    /\ UNCHANGED <<store, iamRole, branch, pc, events, result, passes, entered>>

\* createInlinePolicies returns; both callers return its error
createInlinePolicies_return ==
    /\ pc = "createInlinePolicies"
    /\ createInlinePolicies_done(loc.idx, iamRole.spec.inlinePolicy)
    /\ IF loc.ierrors # Nil
       THEN /\ loc' = [loc EXCEPT !.err = loc.ierrors]
            /\ pc' = IF branch = "sync" THEN "Reconcile_afterSync" ELSE "Reconcile_afterCreate"
       ELSE /\ loc' = [loc EXCEPT !.idx = 1, !.ierrors = Nil]
            /\ pc' = "attachPolicies"
    /\ UNCHANGED <<store, remote, iamRole, branch, calls, events, result, faults, passes, entered>>

\* what the callers of attachPolicies do with its error e: CreateIAMRole returns
\* it (or nil), SyncIAMRole appends it to errors and goes on
attachPolicies_returns(e) ==
    IF branch = "sync"
    THEN /\ loc' = [loc EXCEPT !.errors = @ \o e]
         /\ pc' = "SyncIAMRole_ListAttachedRolePolicies"
    ELSE /\ loc' = [loc EXCEPT !.err = e]
         /\ pc' = "Reconcile_afterCreate"

\* attachPolicies: getArn of the next reference; an identity failure returns
\* at once
attachPolicies_getArn ==
    /\ pc = "attachPolicies"
    /\ loc.idx <= Len(iamRole.spec.policies)
    /\ LET policy == iamRole.spec.policies[loc.idx] IN
         IF isArn(policy)
         THEN /\ loc' = [loc EXCEPT !.policyArn = getArn(policy, Account)]
              /\ pc' = "attachPolicies_Attach"
              /\ UNCHANGED <<calls, faults>>
         ELSE /\ \E ok \in Transport :
                   /\ Invoke("GetCallerIdentity", policy, ok, TRUE)
                   /\ IF ok
                      THEN /\ loc' = [loc EXCEPT !.policyArn = getArn(policy, Account)]
                           /\ pc' = "attachPolicies_Attach"
                      ELSE attachPolicies_returns(<< Failure("GetCallerIdentity", policy) >>)
    /\ UNCHANGED <<store, remote, iamRole, branch, events, result, passes, entered>>

\* attachPolicies: AttachRolePolicy with the resolved ARN
attachPolicies_Attach ==
    /\ pc = "attachPolicies_Attach"
    /\ \E ok \in Transport :
         /\ Invoke("AttachRolePolicy", loc.policyArn, ok, AttachRolePolicyOK(remote, loc.policyArn))
         /\ IF ok /\ AttachRolePolicyOK(remote, loc.policyArn)
            THEN /\ remote' = AttachRolePolicyApply(remote, loc.policyArn)
                 /\ loc' = [loc EXCEPT !.idx = @ + 1]
            ELSE /\ remote' = remote
                 /\ loc' = [loc EXCEPT !.idx = @ + 1,
                               !.ierrors = Append(@, Failure("AttachRolePolicy", loc.policyArn))]
    /\ pc' = "attachPolicies"
    /\ UNCHANGED <<store, iamRole, branch, events, result, passes, entered>>

\* attachPolicies returns the collected errors, or nil
attachPolicies_return ==
    /\ pc = "attachPolicies"
    /\ loc.idx > Len(iamRole.spec.policies)
    /\ attachPolicies_returns(loc.ierrors)
    /\ UNCHANGED <<store, remote, iamRole, branch, calls, events, result, faults, passes, entered>>

\* SyncIAMRole: one ListAttachedRolePolicies request, with no Marker
SyncIAMRole_ListAttachedRolePolicies ==
    /\ pc = "SyncIAMRole_ListAttachedRolePolicies"
    /\ \E ok \in Transport :
         /\ Invoke("ListAttachedRolePolicies", <<iamRole.name>>, ok, ListInputValid(remote, NoMarkerInput))
         /\ IF ok /\ ListInputValid(remote, NoMarkerInput)
            THEN /\ loc' = [loc EXCEPT
                               !.listed = PageOf(AttachedListing(remote), NoMarkerInput).items,
                               !.idx = 1]
                 /\ pc' = "SyncIAMRole_Detach"
            ELSE /\ loc' = [loc EXCEPT
                               !.err = << Failure("ListAttachedRolePolicies", <<iamRole.name>>) >>]
                 /\ pc' = "Reconcile_afterSync"
    /\ UNCHANGED <<store, remote, iamRole, branch, events, result, passes, entered>>

\* SyncIAMRole: DetachRolePolicy for each listed policy that neither its ARN
\* nor its name is in Spec.Policies
SyncIAMRole_Detach ==
    /\ pc = "SyncIAMRole_Detach"
    /\ loc.idx <= Len(loc.listed)
    /\ LET policy == loc.listed[loc.idx] IN
         IF ~In(iamRole.spec.policies, policy.PolicyArn)
               /\ ~In(iamRole.spec.policies, policy.PolicyName)
         THEN /\ \E ok \in Transport :
                   /\ Invoke("DetachRolePolicy", policy.PolicyArn, ok, DetachRolePolicyOK(remote, policy.PolicyArn))
                   /\ IF ok /\ DetachRolePolicyOK(remote, policy.PolicyArn)
                      THEN /\ remote' = DetachRolePolicyApply(remote, policy.PolicyArn)
                           /\ loc' = [loc EXCEPT !.idx = @ + 1]
                      ELSE /\ remote' = remote
                           /\ loc' = [loc EXCEPT !.idx = @ + 1,
                                         !.errors = Append(@, Failure("DetachRolePolicy", policy.PolicyArn))]
         ELSE /\ loc' = [loc EXCEPT !.idx = @ + 1]
              /\ UNCHANGED <<remote, calls, faults>>
    /\ UNCHANGED <<store, iamRole, branch, pc, events, result, passes, entered>>

\* SyncIAMRole returns the collected errors, or nil
SyncIAMRole_return ==
    /\ pc = "SyncIAMRole_Detach"
    /\ loc.idx > Len(loc.listed)
    /\ loc' = [loc EXCEPT !.err = loc.errors]
    /\ pc' = "Reconcile_afterSync"
    /\ UNCHANGED <<store, remote, iamRole, branch, calls, events, result, faults, passes, entered>>

\* DeleteIAMRole: one ListAttachedRolePolicies request, with no Marker
DeleteIAMRole_ListAttachedRolePolicies ==
    /\ pc = "DeleteIAMRole_ListAttachedRolePolicies"
    /\ \E ok \in Transport :
         /\ Invoke("ListAttachedRolePolicies", <<iamRole.name>>, ok, ListInputValid(remote, NoMarkerInput))
         /\ IF ok /\ ListInputValid(remote, NoMarkerInput)
            THEN /\ loc' = [loc EXCEPT
                               !.listed = PageOf(AttachedListing(remote), NoMarkerInput).items,
                               !.idx = 1, !.errors = Nil]
                 /\ pc' = "DeleteIAMRole_Detach"
            ELSE /\ loc' = [loc EXCEPT
                               !.err = << Failure("ListAttachedRolePolicies", <<iamRole.name>>) >>]
                 /\ pc' = "Reconcile_afterDelete"
    /\ UNCHANGED <<store, remote, iamRole, branch, events, result, passes, entered>>

\* DeleteIAMRole: DetachRolePolicy for each listed policy
DeleteIAMRole_Detach ==
    /\ pc = "DeleteIAMRole_Detach"
    /\ loc.idx <= Len(loc.listed)
    /\ LET policy == loc.listed[loc.idx] IN
         /\ \E ok \in Transport :
              /\ Invoke("DetachRolePolicy", policy.PolicyArn, ok, DetachRolePolicyOK(remote, policy.PolicyArn))
              /\ IF ok /\ DetachRolePolicyOK(remote, policy.PolicyArn)
                 THEN /\ remote' = DetachRolePolicyApply(remote, policy.PolicyArn)
                      /\ loc' = [loc EXCEPT !.idx = @ + 1]
                 ELSE /\ remote' = remote
                      /\ loc' = [loc EXCEPT !.idx = @ + 1,
                                    !.errors = Append(@, Failure("DetachRolePolicy", policy.PolicyArn))]
    /\ UNCHANGED <<store, iamRole, branch, pc, events, result, passes, entered>>

\* DeleteIAMRole: DeleteRole, then the detach errors if any, else DeleteRole's
DeleteIAMRole_DeleteRole ==
    /\ pc = "DeleteIAMRole_Detach"
    /\ loc.idx > Len(loc.listed)
    /\ \E ok \in Transport :
         /\ Invoke("DeleteRole", <<iamRole.name>>, ok, DeleteRoleOK(remote))
         /\ IF ok /\ DeleteRoleOK(remote)
            THEN /\ remote' = NoRole
                 /\ loc' = [loc EXCEPT !.err = loc.errors]
            ELSE /\ remote' = remote
                 /\ loc' = [loc EXCEPT !.err = IF loc.errors # Nil THEN loc.errors
                                               ELSE << Failure("DeleteRole", <<iamRole.name>>) >>]
    /\ pc' = "Reconcile_afterDelete"
    /\ UNCHANGED <<store, iamRole, branch, events, result, passes, entered>>

Event(type, reason) == events' = Append(events, [type |-> type, reason |-> reason])

\* Reconcile returns DeleteIAMRole's error
Reconcile_afterDelete ==
    /\ pc = "Reconcile_afterDelete"
    /\ result' = loc.err
    /\ pc' = "idle"
    /\ UNCHANGED <<store, remote, iamRole, branch, loc, calls, events, faults, passes, entered>>

\* a variant of Reconcile_afterSync_stored that writes a status back
Reconcile_afterSync_stored_writesStatus(doc, role) ==
    [doc EXCEPT !.status = [arn |-> RoleArn, roleId |-> RoleId]]

\* Reconcile, sync branch: the stored document as the branch leaves it; the
\* branch holds no r.Update
Reconcile_afterSync_stored(doc, role) == doc

\* Reconcile after SyncIAMRole: one notification, and the error is returned
Reconcile_afterSync ==
    /\ pc = "Reconcile_afterSync"
    /\ IF loc.err # Nil
       THEN Event("Warning", "ErrorSyncingIAMRole")
       ELSE Event("Normal", "IAMRoleUpdated")
    /\ store' = Reconcile_afterSync_stored(store, iamRole)
    /\ result' = loc.err
    /\ pc' = "idle"
    /\ UNCHANGED <<remote, iamRole, branch, loc, calls, faults, passes, entered>>

\* a variant of Reconcile_createFailed that drops the error check
Reconcile_createFailed_never(err) == FALSE

\* Reconcile: CreateIAMRole returned an error
Reconcile_createFailed(err) == err # Nil

\* Reconcile after CreateIAMRole: on an error a Warning and no write; else the
\* object, with its status, is written to the store and Update's error returned
Reconcile_afterCreate ==
    /\ pc = "Reconcile_afterCreate"
    /\ IF Reconcile_createFailed(loc.err)
       THEN /\ Event("Warning", "ErrorCreatingIAMRole")
            /\ result' = loc.err
            /\ UNCHANGED <<store, calls, faults>>
       ELSE /\ Event("Normal", "IAMRoleCreated")
            /\ \E ok \in Transport :
                 /\ Invoke("Update", <<iamRole.name>>, ok, store.exists)
                 /\ IF ok /\ store.exists
                    THEN /\ store' = [store EXCEPT !.spec = iamRole.spec,
                                                   !.status = iamRole.status]
                         /\ result' = Nil
                    ELSE /\ store' = store
                         /\ result' = << Failure("Update", <<iamRole.name>>) >>
    /\ pc' = "idle"
    /\ UNCHANGED <<remote, iamRole, branch, loc, passes, entered>>

\* the external actor deletes the desired-state document
DeleteDocument ==
    /\ pc = "idle"
    /\ store.exists
    /\ store' = [store EXCEPT !.exists = FALSE]
    /\ UNCHANGED <<remote, iamRole, branch, pc, loc, calls, events, result, faults, passes, entered>>

Next ==
    \/ Reconcile_Get
    \/ iamRoleExists
    \/ CreateIAMRole_CreateRole
    \/ SyncIAMRole_UpdateRole
    \/ SyncIAMRole_UpdateAssumeRolePolicy
    \/ removeInlinePolicies_List
    \/ removeInlinePolicies_Delete
    \/ removeInlinePolicies_return
    \/ createInlinePolicies_Put
    \/ createInlinePolicies_return
    \/ attachPolicies_getArn
    \/ attachPolicies_Attach
    \/ attachPolicies_return
    \/ SyncIAMRole_ListAttachedRolePolicies
    \/ SyncIAMRole_Detach
    \/ SyncIAMRole_return
    \/ DeleteIAMRole_ListAttachedRolePolicies
    \/ DeleteIAMRole_Detach
    \/ DeleteIAMRole_DeleteRole
    \/ Reconcile_afterDelete
    \/ Reconcile_afterSync
    \/ Reconcile_afterCreate
    \/ DeleteDocument

Spec == Init /\ [][Next]_vars

-----------------------------------------------------------------------------
(* The struct-scoped client: IAMClient and its paginating readers *)

\* NewIAMClient: the client holds the role object it was built with
NewIAMClient == [name |-> RoleName, spec |-> store.spec, status |-> store.status]

\* a method of the client returns e to its caller
IAMClient_returns(e) == result' = e /\ pc' = "idle"

\* a method of the client is called: the state every entry action sets
IAMClient_enter(method) ==
    /\ pc = "idle"
    /\ passes < MaxPasses
    /\ passes' = passes + 1
    /\ entered' = [branch |-> branch, result |-> result, remote |-> remote]
    /\ branch' = method
    /\ events' = <<>>

\* a variant of descriptionDiffers that updates unconditionally
descriptionDiffers_always(awsRole, spec) == TRUE

\* the three comparisons of SyncIAMRole with the role GetRole returned
descriptionDiffers(awsRole, spec) == awsRole.description # spec.description
maxSessionDurationDiffers(awsRole, spec) == awsRole.maxSessionDuration # spec.maxSessionDuration
trustRelationshipDiffers(awsRole, spec) == awsRole.trust # spec.trustRelationship

\* requestedInlinePolicies: the names of the spec's inline policies
requestedInlinePolicies(spec) == [i \in DOMAIN spec.inlinePolicy |-> spec.inlinePolicy[i].name]

\* a variant of inlineNotRequested that never deletes
inlineNotRequested_never(spec, policy) == FALSE

\* the listed inline policy is not requested
inlineNotRequested(spec, policy) == ~In(requestedInlinePolicies(spec), policy)

\* the listed attached policy matches no reference of the spec
attachedNotRequested(spec, policy) ==
    ~In(spec.policies, policy.PolicyArn) /\ ~In(spec.policies, policy.PolicyName)

\* innerList*Policies: the request as the log records it: << >> with no Marker
\* field, << m >> with the Marker m
innerListRequest(input) == IF input.withMarker THEN <<input.marker>> ELSE <<>>

\* a variant of innerListInput that sends the marker it is given, empty or not
innerListInput_alwaysMarker(m) == MarkerInput(m)

\* a variant of innerListInput that never sends the marker
innerListInput_noMarker(m) == NoMarkerInput

\* innerList*Policies: the Marker field is set only for a non-empty m
innerListInput(m) == IF m # EmptyMarker THEN MarkerInput(m) ELSE NoMarkerInput

\* a variant of innerListIsTruncated that takes every page for the last one
innerListIsTruncated_never(page) == FALSE

\* innerList*Policies: isTruncated as the page reports it
innerListIsTruncated(page) == page.IsTruncated

\* innerList*Policies: the marker returned with a page
innerListMarker(page) == IF page.IsTruncated THEN page.Marker ELSE EmptyMarker

\* SyncIAMRole: GetRole; awsRole is the role as read here
IAMClient_SyncIAMRole_GetRole ==
    /\ IAMClient_enter("c_sync")
    /\ iamRole' = NewIAMClient
    /\ \E ok \in Transport :
         /\ Charge(ok)
         /\ calls' = << CallRecord("GetRole", RoleName, <<RoleName>>, ok /\ remote.exists) >>
         /\ IF ok /\ remote.exists
            THEN /\ loc' = [LocInit EXCEPT !.awsRole = remote]
                 /\ pc' = "c_UpdateRoleDescription"
                 /\ result' = Nil
            ELSE /\ loc' = LocInit
                 /\ IAMClient_returns(<< Failure("GetRole", <<RoleName>>) >>)
    /\ UNCHANGED <<store, remote>>

\* SyncIAMRole: UpdateRoleDescription when the description differs
IAMClient_SyncIAMRole_UpdateRoleDescription ==
    /\ pc = "c_UpdateRoleDescription"
    /\ IF descriptionDiffers(loc.awsRole, iamRole.spec)
       THEN /\ \E ok \in Transport :
                 /\ Invoke("UpdateRoleDescription", <<iamRole.name>>, ok, remote.exists)
                 /\ IF ok /\ remote.exists
                    THEN /\ remote' = [remote EXCEPT !.description = iamRole.spec.description]
                         /\ pc' = "c_UpdateRole"
                         /\ result' = result
                    ELSE /\ remote' = remote
                         /\ IAMClient_returns(<< Failure("UpdateRoleDescription", <<iamRole.name>>) >>)
       ELSE /\ pc' = "c_UpdateRole"
            /\ UNCHANGED <<remote, calls, faults, result>>
    /\ UNCHANGED <<store, iamRole, branch, loc, events, passes, entered>>

\* SyncIAMRole: UpdateRole when the session duration differs
IAMClient_SyncIAMRole_UpdateRole ==
    /\ pc = "c_UpdateRole"
    /\ IF maxSessionDurationDiffers(loc.awsRole, iamRole.spec)
       THEN /\ \E ok \in Transport :
                 /\ Invoke("UpdateRole", <<iamRole.name>>, ok, remote.exists)
                 /\ IF ok /\ remote.exists
                    THEN /\ remote' = [remote EXCEPT
                                          !.maxSessionDuration = iamRole.spec.maxSessionDuration]
                         /\ pc' = "c_UpdateAssumeRolePolicy"
                         /\ result' = result
                    ELSE /\ remote' = remote
                         /\ IAMClient_returns(<< Failure("UpdateRole", <<iamRole.name>>) >>)
       ELSE /\ pc' = "c_UpdateAssumeRolePolicy"
            /\ UNCHANGED <<remote, calls, faults, result>>
    /\ UNCHANGED <<store, iamRole, branch, loc, events, passes, entered>>

\* SyncIAMRole: UpdateAssumeRolePolicy when the trust document differs; then
\* createInlinePolicies is called
IAMClient_SyncIAMRole_UpdateAssumeRolePolicy ==
    /\ pc = "c_UpdateAssumeRolePolicy"
    /\ IF trustRelationshipDiffers(loc.awsRole, iamRole.spec)
       THEN /\ \E ok \in Transport :
                 /\ Invoke("UpdateAssumeRolePolicy", <<iamRole.name>>, ok, remote.exists)
                 /\ IF ok /\ remote.exists
                    THEN /\ remote' = [remote EXCEPT !.trust = iamRole.spec.trustRelationship]
                         /\ pc' = "c_createInlinePolicies"
                         /\ loc' = [loc EXCEPT !.idx = 1, !.ierrors = Nil]
                         /\ result' = result
                    ELSE /\ remote' = remote
                         /\ loc' = loc
                         /\ IAMClient_returns(<< Failure("UpdateAssumeRolePolicy", <<iamRole.name>>) >>)
       ELSE /\ pc' = "c_createInlinePolicies"
            /\ loc' = [loc EXCEPT !.idx = 1, !.ierrors = Nil]
            /\ UNCHANGED <<remote, calls, faults, result>>
    /\ UNCHANGED <<store, iamRole, branch, events, passes, entered>>

\* CreateIAMRole: CreateRole, the status, then createInlinePolicies is called
IAMClient_CreateIAMRole_CreateRole ==
    /\ IAMClient_enter("c_create")
    /\ \E ok \in Transport :
         /\ Charge(ok)
         /\ calls' = << CallRecord("CreateRole", RoleName, <<RoleName>>, ok /\ CreateRoleOK(remote)) >>
         /\ IF ok /\ CreateRoleOK(remote)
            THEN /\ remote' = CreateRoleApply(remote, NewIAMClient.spec)
                 /\ iamRole' = [NewIAMClient EXCEPT !.status = [arn |-> RoleArn, roleId |-> RoleId]]
                 /\ loc' = [LocInit EXCEPT !.idx = 1]
                 /\ pc' = "c_createInlinePolicies"
                 /\ result' = Nil
            ELSE /\ remote' = remote
                 /\ iamRole' = NewIAMClient
                 /\ loc' = LocInit
                 /\ IAMClient_returns(<< Failure("CreateRole", <<RoleName>>) >>)
    /\ store' = store

\* createInlinePolicies: PutRolePolicy for each inline policy of the spec
IAMClient_createInlinePolicies_Put ==
    /\ pc = "c_createInlinePolicies"
    /\ loc.idx <= Len(iamRole.spec.inlinePolicy)
    /\ LET inlinePolicy == iamRole.spec.inlinePolicy[loc.idx] IN
         /\ \E ok \in Transport :
              /\ Invoke("PutRolePolicy", <<inlinePolicy.name>>, ok, remote.exists)
              /\ IF ok /\ remote.exists
                 THEN /\ remote' = PutRolePolicyApply(remote, inlinePolicy.name, inlinePolicy.value)
                      /\ loc' = [loc EXCEPT !.idx = @ + 1]
                 ELSE /\ remote' = remote
                      /\ loc' = [loc EXCEPT !.idx = @ + 1,
                                    !.ierrors = Append(@, Failure("PutRolePolicy", <<inlinePolicy.name>>))]
    /\ UNCHANGED <<store, iamRole, branch, pc, events, result, passes, entered>>

\* createInlinePolicies returns; both callers return its error; SyncIAMRole
\* goes on to listInlinePolicies, CreateIAMRole to attachPolicies
IAMClient_createInlinePolicies_return ==
    /\ pc = "c_createInlinePolicies"
    /\ loc.idx > Len(iamRole.spec.inlinePolicy)
    /\ IF loc.ierrors # Nil
       THEN /\ IAMClient_returns(loc.ierrors)
            /\ loc' = loc
       ELSE /\ pc' = IF branch = "c_sync" THEN "c_listInlinePolicies" ELSE "c_attachPolicies"
            /\ loc' = [loc EXCEPT !.idx = 1, !.ierrors = Nil]
            /\ result' = result
    /\ UNCHANGED <<store, remote, iamRole, branch, calls, events, faults, passes, entered>>

\* DeleteIAMRole is called; it starts with listInlinePolicies
IAMClient_DeleteIAMRole ==
    /\ IAMClient_enter("c_delete")
    /\ iamRole' = NewIAMClient
    /\ calls' = <<>>
    /\ loc' = LocInit
    /\ pc' = "c_listInlinePolicies"
    /\ result' = Nil
    /\ UNCHANGED <<store, remote, faults>>

\* a variant of IAMClient_listPolicies_failed that keeps the pages read so
\* far, collects the error and lets the caller go on
IAMClient_listPolicies_failed_partial(e) ==
    /\ loc' = [loc EXCEPT !.isTruncated = FALSE, !.errors = @ \o e]
    /\ pc' = pc
    /\ result' = result

\* list*Policies: a page request failed: nil and the error are returned, and
\* the caller (SyncIAMRole or DeleteIAMRole) returns the error
IAMClient_listPolicies_failed(e) ==
    /\ loc' = [loc EXCEPT !.listed = <<>>]
    /\ IAMClient_returns(e)

\* listInlinePolicies: the first request, innerListInlinePolicies(roleName, "")
IAMClient_listInlinePolicies_first ==
    /\ pc = "c_listInlinePolicies"
    /\ LET input == innerListInput(EmptyMarker) IN
         /\ \E ok \in Transport :
              /\ Invoke("ListRolePolicies", innerListRequest(input), ok, ListInputValid(remote, input))
              /\ IF ok /\ ListInputValid(remote, input)
                 THEN LET page == ServedPage(remote, InlineListing(remote), input) IN
                      /\ loc' = [loc EXCEPT !.listed = page.items,
                                            !.isTruncated = innerListIsTruncated(page),
                                            !.marker = innerListMarker(page)]
                      /\ pc' = "c_listInlinePolicies_loop"
                      /\ result' = result
                 ELSE IAMClient_listPolicies_failed(<< Failure("ListRolePolicies", input.marker) >>)
    /\ UNCHANGED <<store, remote, iamRole, branch, events, passes, entered>>

\* listInlinePolicies: while isTruncated, the next request with the marker
IAMClient_listInlinePolicies_next ==
    /\ pc = "c_listInlinePolicies_loop"
    /\ loc.isTruncated
    /\ Len(loc.listed) < MaxListed
    /\ LET input == innerListInput(loc.marker) IN
         /\ \E ok \in Transport :
              /\ Invoke("ListRolePolicies", innerListRequest(input), ok, ListInputValid(remote, input))
              /\ IF ok /\ ListInputValid(remote, input)
                 THEN LET page == ServedPage(remote, InlineListing(remote), input) IN
                      /\ loc' = [loc EXCEPT !.listed = @ \o page.items,
                                            !.isTruncated = innerListIsTruncated(page),
                                            !.marker = innerListMarker(page)]
                      /\ pc' = pc
                      /\ result' = result
                 ELSE IAMClient_listPolicies_failed(<< Failure("ListRolePolicies", input.marker) >>)
    /\ UNCHANGED <<store, remote, iamRole, branch, events, passes, entered>>

\* a variant of IAMClient_listInlinePolicies_caller in which DeleteIAMRole
\* goes straight to the attached policies
IAMClient_listInlinePolicies_caller_skipsInline(method) ==
    IF method = "c_sync" THEN "c_SyncIAMRole_DeleteRolePolicy" ELSE "c_listAttachedPolicies"

\* where listInlinePolicies returns to: the loop over the names in
\* SyncIAMRole or in DeleteIAMRole
IAMClient_listInlinePolicies_caller(method) ==
    IF method = "c_sync" THEN "c_SyncIAMRole_DeleteRolePolicy"
                         ELSE "c_DeleteIAMRole_DeleteRolePolicy"

\* listInlinePolicies returns the names; the caller starts its loop over them
IAMClient_listInlinePolicies_return ==
    /\ pc = "c_listInlinePolicies_loop"
    /\ ~loc.isTruncated
    /\ loc' = [loc EXCEPT !.idx = 1]
    /\ pc' = IAMClient_listInlinePolicies_caller(branch)
    /\ UNCHANGED <<store, remote, iamRole, branch, calls, events, result, faults, passes, entered>>

\* SyncIAMRole: DeleteRolePolicy for each listed name that is not requested
IAMClient_SyncIAMRole_DeleteRolePolicy ==
    /\ pc = "c_SyncIAMRole_DeleteRolePolicy"
    /\ loc.idx <= Len(loc.listed)
    /\ LET policy == loc.listed[loc.idx] IN
         IF inlineNotRequested(iamRole.spec, policy)
         THEN /\ \E ok \in Transport :
                   /\ Invoke("DeleteRolePolicy", <<policy>>, ok, DeleteRolePolicyOK(remote, policy))
                   /\ IF ok /\ DeleteRolePolicyOK(remote, policy)
                      THEN /\ remote' = DeleteRolePolicyApply(remote, policy)
                           /\ loc' = [loc EXCEPT !.idx = @ + 1]
                      ELSE /\ remote' = remote
                           /\ loc' = [loc EXCEPT !.idx = @ + 1,
                                         !.errors = Append(@, Failure("DeleteRolePolicy", <<policy>>))]
         ELSE /\ loc' = [loc EXCEPT !.idx = @ + 1]
              /\ UNCHANGED <<remote, calls, faults>>
    /\ UNCHANGED <<store, iamRole, branch, pc, events, result, passes, entered>>

\* SyncIAMRole: after the inline deletions attachPolicies is called
IAMClient_SyncIAMRole_callAttachPolicies ==
    /\ pc = "c_SyncIAMRole_DeleteRolePolicy"
    /\ loc.idx > Len(loc.listed)
    /\ loc' = [loc EXCEPT !.idx = 1, !.ierrors = Nil]
    /\ pc' = "c_attachPolicies"
    /\ UNCHANGED <<store, remote, iamRole, branch, calls, events, result, faults, passes, entered>>

\* what the callers of attachPolicies do with its error e: CreateIAMRole returns
\* it (or nil), SyncIAMRole appends it to errors and goes on
IAMClient_attachPolicies_returns(e) ==
    IF branch = "c_sync"
    THEN /\ loc' = [loc EXCEPT !.errors = @ \o e]
         /\ pc' = "c_listAttachedPolicies"
         /\ result' = result
    ELSE /\ loc' = loc
         /\ IAMClient_returns(e)

\* attachPolicies: getArn of the next reference; an identity failure returns
\* at once
IAMClient_attachPolicies_getArn ==
    /\ pc = "c_attachPolicies"
    /\ loc.idx <= Len(iamRole.spec.policies)
    /\ LET policy == iamRole.spec.policies[loc.idx] IN
         IF isArn(policy)
         THEN /\ loc' = [loc EXCEPT !.policyArn = getArn(policy, Account)]
              /\ pc' = "c_attachPolicies_Attach"
              /\ UNCHANGED <<calls, faults, result>>
         ELSE /\ \E ok \in Transport :
                   /\ Invoke("GetCallerIdentity", policy, ok, TRUE)
                   /\ IF ok
                      THEN /\ loc' = [loc EXCEPT !.policyArn = getArn(policy, Account)]
                           /\ pc' = "c_attachPolicies_Attach"
                           /\ result' = result
                      ELSE IAMClient_attachPolicies_returns(<< Failure("GetCallerIdentity", policy) >>)
    /\ UNCHANGED <<store, remote, iamRole, branch, events, passes, entered>>

\* attachPolicies: AttachRolePolicy with the resolved ARN
IAMClient_attachPolicies_Attach ==
    /\ pc = "c_attachPolicies_Attach"
    /\ \E ok \in Transport :
         /\ Invoke("AttachRolePolicy", loc.policyArn, ok, AttachRolePolicyOK(remote, loc.policyArn))
         /\ IF ok /\ AttachRolePolicyOK(remote, loc.policyArn)
            THEN /\ remote' = AttachRolePolicyApply(remote, loc.policyArn)
                 /\ loc' = [loc EXCEPT !.idx = @ + 1]
            ELSE /\ remote' = remote
                 /\ loc' = [loc EXCEPT !.idx = @ + 1,
                               !.ierrors = Append(@, Failure("AttachRolePolicy", loc.policyArn))]
    /\ pc' = "c_attachPolicies"
    /\ UNCHANGED <<store, iamRole, branch, events, result, passes, entered>>

\* attachPolicies returns the collected errors, or nil
IAMClient_attachPolicies_return ==
    /\ pc = "c_attachPolicies"
    /\ loc.idx > Len(iamRole.spec.policies)
    /\ IAMClient_attachPolicies_returns(loc.ierrors)
    /\ UNCHANGED <<store, remote, iamRole, branch, calls, events, faults, passes, entered>>

\* DeleteIAMRole: DeleteRolePolicy for each listed name; the first failure is
\* returned
IAMClient_DeleteIAMRole_DeleteRolePolicy ==
    /\ pc = "c_DeleteIAMRole_DeleteRolePolicy"
    /\ loc.idx <= Len(loc.listed)
    /\ LET policy == loc.listed[loc.idx] IN
         /\ \E ok \in Transport :
              /\ Invoke("DeleteRolePolicy", <<policy>>, ok, DeleteRolePolicyOK(remote, policy))
              /\ IF ok /\ DeleteRolePolicyOK(remote, policy)
                 THEN /\ remote' = DeleteRolePolicyApply(remote, policy)
                      /\ pc' = pc
                      /\ result' = result
                 ELSE /\ remote' = remote
                      /\ IAMClient_returns(<< Failure("DeleteRolePolicy", <<policy>>) >>)
    /\ loc' = [loc EXCEPT !.idx = @ + 1]
    /\ UNCHANGED <<store, iamRole, branch, events, passes, entered>>

\* DeleteIAMRole: after the inline deletions listAttachedPolicies is called
IAMClient_DeleteIAMRole_callListAttachedPolicies ==
    /\ pc = "c_DeleteIAMRole_DeleteRolePolicy"
    /\ loc.idx > Len(loc.listed)
    /\ pc' = "c_listAttachedPolicies"
    /\ UNCHANGED <<store, remote, iamRole, branch, loc, calls, events, result, faults, passes, entered>>

\* listAttachedPolicies: the first request, innerListAttachedPolicies(roleName, "")
IAMClient_listAttachedPolicies_first ==
    /\ pc = "c_listAttachedPolicies"
    /\ LET input == innerListInput(EmptyMarker) IN
         /\ \E ok \in Transport :
              /\ Invoke("ListAttachedRolePolicies", innerListRequest(input), ok, ListInputValid(remote, input))
              /\ IF ok /\ ListInputValid(remote, input)
                 THEN LET page == ServedPage(remote, AttachedListing(remote), input) IN
                      /\ loc' = [loc EXCEPT !.listed = page.items,
                                            !.isTruncated = innerListIsTruncated(page),
                                            !.marker = innerListMarker(page)]
                      /\ pc' = "c_listAttachedPolicies_loop"
                      /\ result' = result
                 ELSE IAMClient_listPolicies_failed(<< Failure("ListAttachedRolePolicies", input.marker) >>)
    /\ UNCHANGED <<store, remote, iamRole, branch, events, passes, entered>>

\* listAttachedPolicies: while isTruncated, the next request with the marker
IAMClient_listAttachedPolicies_next ==
    /\ pc = "c_listAttachedPolicies_loop"
    /\ loc.isTruncated
    /\ Len(loc.listed) < MaxListed
    /\ LET input == innerListInput(loc.marker) IN
         /\ \E ok \in Transport :
              /\ Invoke("ListAttachedRolePolicies", innerListRequest(input), ok, ListInputValid(remote, input))
              /\ IF ok /\ ListInputValid(remote, input)
                 THEN LET page == ServedPage(remote, AttachedListing(remote), input) IN
                      /\ loc' = [loc EXCEPT !.listed = @ \o page.items,
                                            !.isTruncated = innerListIsTruncated(page),
                                            !.marker = innerListMarker(page)]
                      /\ pc' = pc
                      /\ result' = result
                 ELSE IAMClient_listPolicies_failed(<< Failure("ListAttachedRolePolicies", input.marker) >>)
    /\ UNCHANGED <<store, remote, iamRole, branch, events, passes, entered>>

\* listAttachedPolicies returns the policies; the caller starts its loop
IAMClient_listAttachedPolicies_return ==
    /\ pc = "c_listAttachedPolicies_loop"
    /\ ~loc.isTruncated
    /\ loc' = [loc EXCEPT !.idx = 1]
    /\ pc' = IF branch = "c_sync" THEN "c_SyncIAMRole_Detach" ELSE "c_DeleteIAMRole_Detach"
    /\ UNCHANGED <<store, remote, iamRole, branch, calls, events, result, faults, passes, entered>>

\* a variant of IAMClient_SyncIAMRole_detachFailed that drops the failure
IAMClient_SyncIAMRole_detachFailed_dropped(errors, e) == errors

\* SyncIAMRole: a failed DetachRolePolicy is appended to errors
IAMClient_SyncIAMRole_detachFailed(errors, e) == Append(errors, e)

\* SyncIAMRole: DetachRolePolicy for each listed policy that matches no
\* reference of the spec by ARN or by name
IAMClient_SyncIAMRole_Detach ==
    /\ pc = "c_SyncIAMRole_Detach"
    /\ loc.idx <= Len(loc.listed)
    /\ LET policy == loc.listed[loc.idx] IN
         IF attachedNotRequested(iamRole.spec, policy)
         THEN /\ \E ok \in Transport :
                   /\ Invoke("DetachRolePolicy", policy.PolicyArn, ok, DetachRolePolicyOK(remote, policy.PolicyArn))
                   /\ IF ok /\ DetachRolePolicyOK(remote, policy.PolicyArn)
                      THEN /\ remote' = DetachRolePolicyApply(remote, policy.PolicyArn)
                           /\ loc' = [loc EXCEPT !.idx = @ + 1]
                      ELSE /\ remote' = remote
                           /\ loc' = [loc EXCEPT !.idx = @ + 1,
                                         !.errors = IAMClient_SyncIAMRole_detachFailed(
                                                       @, Failure("DetachRolePolicy", policy.PolicyArn))]
         ELSE /\ loc' = [loc EXCEPT !.idx = @ + 1]
              /\ UNCHANGED <<remote, calls, faults>>
    /\ UNCHANGED <<store, iamRole, branch, pc, events, result, passes, entered>>

\* SyncIAMRole returns the collected errors, or nil
IAMClient_SyncIAMRole_return ==
    /\ pc = "c_SyncIAMRole_Detach"
    /\ loc.idx > Len(loc.listed)
    /\ IAMClient_returns(loc.errors)
    /\ UNCHANGED <<store, remote, iamRole, branch, loc, calls, events, faults, passes, entered>>

\* DeleteIAMRole: DetachRolePolicy for each listed policy; the first failure is
\* returned
IAMClient_DeleteIAMRole_Detach ==
    /\ pc = "c_DeleteIAMRole_Detach"
    /\ loc.idx <= Len(loc.listed)
    /\ LET policy == loc.listed[loc.idx] IN
         /\ \E ok \in Transport :
              /\ Invoke("DetachRolePolicy", policy.PolicyArn, ok, DetachRolePolicyOK(remote, policy.PolicyArn))
              /\ IF ok /\ DetachRolePolicyOK(remote, policy.PolicyArn)
                 THEN /\ remote' = DetachRolePolicyApply(remote, policy.PolicyArn)
                      /\ pc' = pc
                      /\ result' = result
                 ELSE /\ remote' = remote
                      /\ IAMClient_returns(<< Failure("DetachRolePolicy", policy.PolicyArn) >>)
    /\ loc' = [loc EXCEPT !.idx = @ + 1]
    /\ UNCHANGED <<store, iamRole, branch, events, passes, entered>>

\* DeleteIAMRole: DeleteRole, whose error is returned
IAMClient_DeleteIAMRole_DeleteRole ==
    /\ pc = "c_DeleteIAMRole_Detach"
    /\ loc.idx > Len(loc.listed)
    /\ \E ok \in Transport :
         /\ Invoke("DeleteRole", <<iamRole.name>>, ok, DeleteRoleOK(remote))
         /\ IF ok /\ DeleteRoleOK(remote)
            THEN /\ remote' = NoRole
                 /\ IAMClient_returns(Nil)
            ELSE /\ remote' = remote
                 /\ IAMClient_returns(<< Failure("DeleteRole", <<iamRole.name>>) >>)
    /\ UNCHANGED <<store, iamRole, branch, loc, events, passes, entered>>

NextClient ==
    \/ IAMClient_SyncIAMRole_GetRole
    \/ IAMClient_SyncIAMRole_UpdateRoleDescription
    \/ IAMClient_SyncIAMRole_UpdateRole
    \/ IAMClient_SyncIAMRole_UpdateAssumeRolePolicy
    \/ IAMClient_CreateIAMRole_CreateRole
    \/ IAMClient_createInlinePolicies_Put
    \/ IAMClient_createInlinePolicies_return
    \/ IAMClient_DeleteIAMRole
    \/ IAMClient_listInlinePolicies_first
    \/ IAMClient_listInlinePolicies_next
    \/ IAMClient_listInlinePolicies_return
    \/ IAMClient_SyncIAMRole_DeleteRolePolicy
    \/ IAMClient_SyncIAMRole_callAttachPolicies
    \/ IAMClient_attachPolicies_getArn
    \/ IAMClient_attachPolicies_Attach
    \/ IAMClient_attachPolicies_return
    \/ IAMClient_DeleteIAMRole_DeleteRolePolicy
    \/ IAMClient_DeleteIAMRole_callListAttachedPolicies
    \/ IAMClient_listAttachedPolicies_first
    \/ IAMClient_listAttachedPolicies_next
    \/ IAMClient_listAttachedPolicies_return
    \/ IAMClient_SyncIAMRole_Detach
    \/ IAMClient_SyncIAMRole_return
    \/ IAMClient_DeleteIAMRole_Detach
    \/ IAMClient_DeleteIAMRole_DeleteRole

SpecClient == Init /\ [][NextClient]_vars

\* the teardown of both generations of the code: Reconcile for a deleted
\* document (a Reconcile that finds the document is not followed here), and
\* DeleteIAMRole of the client
NextTeardown ==
    \/ DeleteDocument
    \/ Reconcile_Get
    \/ removeInlinePolicies_List
    \/ removeInlinePolicies_Delete
    \/ removeInlinePolicies_return
    \/ DeleteIAMRole_ListAttachedRolePolicies
    \/ DeleteIAMRole_Detach
    \/ DeleteIAMRole_DeleteRole
    \/ Reconcile_afterDelete
    \/ IAMClient_DeleteIAMRole
    \/ IAMClient_listInlinePolicies_first
    \/ IAMClient_listInlinePolicies_next
    \/ IAMClient_listInlinePolicies_return
    \/ IAMClient_DeleteIAMRole_DeleteRolePolicy
    \/ IAMClient_DeleteIAMRole_callListAttachedPolicies
    \/ IAMClient_listAttachedPolicies_first
    \/ IAMClient_listAttachedPolicies_next
    \/ IAMClient_listAttachedPolicies_return
    \/ IAMClient_DeleteIAMRole_Detach
    \/ IAMClient_DeleteIAMRole_DeleteRole

SpecTeardown == Init /\ [][NextTeardown]_vars

-----------------------------------------------------------------------------
(* Properties *)

Issued(op) == \E i \in DOMAIN calls : calls[i].op = op
CountIssued(op) == Cardinality({i \in DOMAIN calls : calls[i].op = op})

TeardownCalls == {"Get", "ListRolePolicies", "DeleteRolePolicy",
                  "ListAttachedRolePolicies", "DetachRolePolicy", "DeleteRole"}
CreateSteps == {"CreateRole", "PutRolePolicy", "GetCallerIdentity", "AttachRolePolicy"}
CreatedStatus == [arn |-> RoleArn, roleId |-> RoleId]

\* the canonical identifiers the spec's references resolve to
ResolvedPolicies(spec) == {getArn(spec.policies[i], Account) : i \in DOMAIN spec.policies}
\* the names of the inline policies on the remote role
RemoteInlineNames == {n \in InlineNames : remote.inline[n] # NoDoc}

\* C1: an invocation takes the teardown path exactly when the document is not
\* found; on that path the object holds only the request's name, every call is
\* one of the deletion sequence for that name (no create, update, put or
\* attach), and the deletion sequence has run when it returns.  A read that
\* fails otherwise returns the error after the read alone.
C1_TeardownOnAbsence ==
    /\ pc # "idle" => (branch = "teardown" <=> ~store.exists)
    /\ branch = "teardown" =>
          /\ iamRole = [ZeroIAMRole EXCEPT !.name = RoleName]
          /\ \A i \in DOMAIN calls :
                calls[i].op \in TeardownCalls /\ calls[i].role = RoleName
          /\ pc = "idle" =>
                /\ Len(calls) >= 2
                /\ calls[2].op = "ListRolePolicies"
                /\ Issued("ListAttachedRolePolicies")
    /\ branch = "readerror" =>
          /\ pc = "idle"
          /\ result # Nil
          /\ Len(calls) = 1
          /\ calls[1].op = "Get"

\* a teardown that deleted an inline policy, detached a policy and deleted the role
C1_Witness ==
    /\ branch = "teardown"
    /\ pc = "idle"
    /\ result = Nil
    /\ ~remote.exists
    /\ Issued("DeleteRolePolicy")
    /\ Issued("DetachRolePolicy")

\* C2: with the document found, the sync path is taken when the role exists
\* remotely and CreateRole is issued only for a role that is absent remotely.
C2_CreateOnlyWhenAbsent ==
    /\ pc = "CreateIAMRole_CreateRole" => ~remote.exists
    /\ pc = "SyncIAMRole_UpdateRole" => remote.exists

\* C3: on the create path the store write is issued if and only if every step
\* of CreateIAMRole (CreateRole, each put, each resolution and attach)
\* succeeded; after a failed step Reconcile returns an error; a write that
\* succeeded stored the arn and roleId.
C3_StatusWrittenIffCreated ==
    branch = "create" =>
       LET createOK == \A i \in DOMAIN calls : calls[i].op \in CreateSteps => calls[i].ok
       IN  /\ Issued("Update") => createOK
           /\ pc = "idle" =>
                 /\ createOK => Issued("Update")
                 /\ ~createOK => result # Nil
                 /\ result = Nil => store.status = CreatedStatus

\* a create that put an inline policy, attached a policy and stored the status
C3_Witness ==
    /\ branch = "create"
    /\ pc = "idle"
    /\ result = Nil
    /\ store.status = CreatedStatus
    /\ Issued("PutRolePolicy")
    /\ Issued("AttachRolePolicy")

\* C4: after an invocation that returned success on the create or the sync
\* path, the stored status holds the arn and roleId of the remote role.
C4_StatusAfterSuccess ==
    (pc = "idle" /\ branch \in {"create", "sync"} /\ result = Nil)
        => store.status = CreatedStatus

\* C5: IAMClient.SyncIAMRole issues each of the three field updates only when
\* the spec value differs from the value GetRole returned, and, once the three
\* comparisons are behind it with no failure, has issued each of them exactly
\* when its own field differs.
C5_FieldUpdatesOnlyOnDifference ==
    branch = "c_sync" =>
       LET aws == loc.awsRole
           spec == iamRole.spec
           failed == \E i \in DOMAIN calls :
                        /\ calls[i].op \in {"GetRole", "UpdateRoleDescription",
                                            "UpdateRole", "UpdateAssumeRolePolicy"}
                        /\ ~calls[i].ok
           decided == /\ ~failed
                      /\ pc \notin {"c_UpdateRoleDescription", "c_UpdateRole",
                                    "c_UpdateAssumeRolePolicy"}
       IN  /\ Issued("UpdateRoleDescription") => aws.description # spec.description
           /\ Issued("UpdateRole") => aws.maxSessionDuration # spec.maxSessionDuration
           /\ Issued("UpdateAssumeRolePolicy") => aws.trust # spec.trustRelationship
           /\ decided =>
                 /\ Issued("UpdateRoleDescription") <=> aws.description # spec.description
                 /\ Issued("UpdateRole") <=> aws.maxSessionDuration # spec.maxSessionDuration
                 /\ Issued("UpdateAssumeRolePolicy") <=> aws.trust # spec.trustRelationship

\* a successful sync that updated the session duration and no other field
C5_Witness ==
    /\ branch = "c_sync"
    /\ pc = "idle"
    /\ result = Nil
    /\ Issued("UpdateRole")
    /\ ~Issued("UpdateRoleDescription")
    /\ ~Issued("UpdateAssumeRolePolicy")

\* C6: in the controller's SyncIAMRole a failed field update (UpdateRole or
\* UpdateAssumeRolePolicy) is the last call of the sync, and the sync returns
\* an error.
C6_FieldUpdateFailureAborts ==
    branch = "sync" =>
       \A i \in DOMAIN calls :
          (calls[i].op \in {"UpdateRole", "UpdateAssumeRolePolicy"} /\ ~calls[i].ok)
             => /\ i = Len(calls)
                /\ pc = "idle" => result # Nil

\* C7: in the controller's SyncIAMRole an inline policy is deleted only if its
\* name is not among the names of spec.inlinePolicies.
C7_OnlyUndesiredInlineDeleted ==
    branch = "sync" =>
       \A i \in DOMAIN calls :
          calls[i].op = "DeleteRolePolicy"
             => calls[i].target[1] \notin
                   {iamRole.spec.inlinePolicy[j].name : j \in DOMAIN iamRole.spec.inlinePolicy}

\* C8: IAMClient.SyncIAMRole never detaches a policy whose canonical
\* identifier is the resolved identifier of a reference of the spec.
C8_DesiredPolicyNeverDetached ==
    branch = "c_sync" =>
       \A i \in DOMAIN calls :
          calls[i].op = "DetachRolePolicy"
             => calls[i].target \notin ResolvedPolicies(iamRole.spec)

\* C9: after IAMClient.SyncIAMRole returned success the remote description,
\* session duration and trust document equal the spec's, the remote inline
\* policy names are the spec's names, and each holds the document of the last
\* spec entry with its name.
C9_FieldsAndInlineConverged ==
    (branch = "c_sync" /\ pc = "idle" /\ result = Nil) =>
       LET spec == iamRole.spec
           inl == spec.inlinePolicy
       IN  /\ remote.description = spec.description
           /\ remote.maxSessionDuration = spec.maxSessionDuration
           /\ remote.trust = spec.trustRelationship
           /\ RemoteInlineNames = {inl[i].name : i \in DOMAIN inl}
           /\ \A i \in DOMAIN inl :
                 (\A j \in DOMAIN inl : j > i => inl[j].name # inl[i].name)
                    => remote.inline[inl[i].name] = inl[i].value

\* a successful sync that put an inline policy, read the inline listing in two
\* pages and deleted an inline policy that is not requested
C9_Witness ==
    /\ branch = "c_sync"
    /\ pc = "idle"
    /\ result = Nil
    /\ Issued("PutRolePolicy")
    /\ CountIssued("ListRolePolicies") = 2
    /\ \E i \in DOMAIN calls : calls[i].op = "DeleteRolePolicy" /\ calls[i].ok

\* C10: after IAMClient.SyncIAMRole returned success the canonical
\* identifiers attached to the remote role are exactly the resolved
\* identifiers of the spec's references.
C10_AttachedEqualsResolved ==
    (branch = "c_sync" /\ pc = "idle" /\ result = Nil)
        => remote.attached = ResolvedPolicies(iamRole.spec)

\* every call of the running (or last) invocation was answered without error
AllCallsOK == \A i \in DOMAIN calls : calls[i].ok

\* the running (or last) invocation is a sync that follows a successful sync
SecondSync ==
    /\ branch = "c_sync"
    /\ entered.branch = "c_sync"
    /\ entered.result = Nil

\* C11: a second IAMClient.SyncIAMRole with the same spec, run on the role a
\* successful first sync left and with every call succeeding, returns success
\* and leaves the remote role (fields, inline policies, attached policies) as
\* the first sync left it.
C11_SecondSyncChangesNothing ==
    (SecondSync /\ AllCallsOK /\ pc = "idle") =>
        /\ result = Nil
        /\ remote = entered.remote

\* a second sync, all calls succeeding, that has put an inline policy and
\* attached a policy again on a role holding both
C11_Witness ==
    /\ SecondSync
    /\ AllCallsOK
    /\ pc = "idle"
    /\ Issued("PutRolePolicy")
    /\ Issued("AttachRolePolicy")
    /\ RemoteInlineNames # {}
    /\ remote.attached # {}

\* the number of pages the service splits a listing of n items into
NumPages(n) == IF n = 0 THEN 1 ELSE (n + PageSize - 1) \div PageSize

\* what a paginating reader holds while it reads `full` with requests `op`:
\* the pages read so far in order, one request per page, and isTruncated set
\* exactly while pages remain
ReadingPages(full, op) ==
    /\ Len(loc.listed) <= Len(full)
    /\ loc.listed = SubSeq(full, 1, Len(loc.listed))
    /\ loc.isTruncated <=> Len(loc.listed) < Len(full)
    /\ CountIssued(op) = NumPages(Len(loc.listed))

\* what a paginating reader has returned: the whole listing, with one request
\* per page
ReturnedPages(full, op) ==
    /\ loc.listed = full
    /\ CountIssued(op) = NumPages(Len(full))

\* C12: listInlinePolicies and listAttachedPolicies return the concatenation
\* of all N pages of the listing in page order, with exactly N requests and
\* none after the page that reports not-truncated.
C12_PaginationComplete ==
    /\ pc = "c_listInlinePolicies_loop"
          => ReadingPages(InlineListing(remote), "ListRolePolicies")
    /\ (pc \in {"c_SyncIAMRole_DeleteRolePolicy", "c_DeleteIAMRole_DeleteRolePolicy"}
           /\ loc.idx = 1)
          => ReturnedPages(InlineListing(remote), "ListRolePolicies")
    /\ pc = "c_listAttachedPolicies_loop"
          => ReadingPages(AttachedListing(remote), "ListAttachedRolePolicies")
    /\ (pc \in {"c_SyncIAMRole_Detach", "c_DeleteIAMRole_Detach"} /\ loc.idx = 1)
          => ReturnedPages(AttachedListing(remote), "ListAttachedRolePolicies")

\* a teardown that has read the inline listing and the attached listing in
\* three pages each
C12_Witness ==
    /\ pc = "c_DeleteIAMRole_Detach"
    /\ loc.idx = 1
    /\ Len(loc.listed) > PageSize
    /\ CountIssued("ListRolePolicies") = 3
    /\ CountIssued("ListAttachedRolePolicies") = 3

\* the list requests of the paginating readers
ListOps == {"ListRolePolicies", "ListAttachedRolePolicies"}

\* the marker the service returns with the k-th page of a listing that goes on
MarkerAfter(k) == <<k * PageSize + 1>>

\* C13: of the requests of one paginating reader, the first carries no marker
\* and the k-th (k > 1) carries the marker returned with page k-1; none carries
\* an empty marker.
C13_MarkerChain ==
    branch \in {"c_sync", "c_delete"} =>
       \A i \in DOMAIN calls :
          calls[i].op \in ListOps =>
             LET k == Cardinality({j \in 1..i : calls[j].op = calls[i].op})
             IN  /\ calls[i].target = IF k = 1 THEN <<>> ELSE <<MarkerAfter(k - 1)>>
                 /\ calls[i].target # <<EmptyMarker>>

\* a third page of the attached listing was requested with the marker of the
\* second page, and answered
C13_Witness ==
    \E i \in DOMAIN calls :
       /\ calls[i].op = "ListAttachedRolePolicies"
       /\ calls[i].target = <<MarkerAfter(2)>>
       /\ calls[i].ok

\* C14: a failed page request of listInlinePolicies or listAttachedPolicies is
\* the last call of the invocation: pagination stops, the caller holds an
\* empty listing and returns that error, and no delete or detach follows.
C14_ListFailureAborts ==
    branch \in {"c_sync", "c_delete"} =>
       \A i \in DOMAIN calls :
          (calls[i].op \in ListOps /\ ~calls[i].ok) =>
             /\ i = Len(calls)
             /\ pc = "idle"
             /\ loc.listed = <<>>
             /\ Len(result) = 1
             /\ result[1].op = calls[i].op

\* a request for a later page failed after an earlier page had been read
C14_Witness ==
    /\ pc = "idle"
    /\ Len(calls) > 0
    /\ calls[Len(calls)].op \in ListOps
    /\ ~calls[Len(calls)].ok
    /\ calls[Len(calls)].target # <<>>

\* C15: getArn returns a reference that contains the marker arn:aws:iam as it
\* is, with no identity call; for any other reference it makes one identity
\* call and returns arn:aws:iam::<account>:policy/<reference>, or that call's
\* error when it fails.
C15_GetArn ==
    branch \in {"c_sync", "c_create"} =>
       LET policies == iamRole.spec.policies IN
       /\ pc = "c_attachPolicies_Attach" =>
             LET policy == policies[loc.idx] IN
             /\ isArn(policy) => loc.policyArn = policy
             /\ ~isArn(policy) =>
                   loc.policyArn = <<"arn:aws:iam", "::", Account, ":policy/">> \o policy
             /\ CountIssued("GetCallerIdentity")
                   = Cardinality({j \in 1..loc.idx : ~isArn(policies[j])})
       /\ \A i \in DOMAIN calls :
             calls[i].op = "GetCallerIdentity" =>
                /\ ~isArn(calls[i].target)
                /\ ~calls[i].ok =>
                      LET e == Failure("GetCallerIdentity", calls[i].target)
                      IN  IF branch = "c_sync" THEN In(loc.errors, e) ELSE result = <<e>>

\* getArn has returned the second reference, an ARN, as it is, after one
\* identity call for the first reference, a short name
C15_Witness ==
    /\ branch = "c_sync"
    /\ pc = "c_attachPolicies_Attach"
    /\ loc.idx = 2
    /\ loc.policyArn = AwsReadOnly
    /\ CountIssued("GetCallerIdentity") = 1

\* the calls `op` of the running (or last) invocation, in order
CallsOf(op) == SelectSeq(calls, LAMBDA c : c.op = op)
\* the failures of `op` that a collected error holds, in order
FailuresOf(errors, op) == SelectSeq(errors, LAMBDA e : e.op = op)
\* the failures that the failed calls among cs amount to
FailuresIn(cs) ==
    LET failed == SelectSeq(cs, LAMBDA c : ~c.ok)
    IN  [j \in DOMAIN failed |-> Failure(failed[j].op, failed[j].target)]

\* the detach loop of IAMClient.SyncIAMRole is running or has run
InDetachLoop ==
    /\ branch = "c_sync"
    /\ \/ pc = "c_SyncIAMRole_Detach"
       \/ /\ pc = "idle"
          /\ Issued("ListAttachedRolePolicies")
          /\ \A i \in DOMAIN calls : calls[i].op = "ListAttachedRolePolicies" => calls[i].ok

\* C16: in IAMClient.SyncIAMRole a detach is issued for every listed policy
\* selected for detachment, whether or not earlier detachments failed; the
\* attach category has run before the first detach; the collected errors hold
\* exactly the failed detachments next to the earlier failures, and the sync
\* returns them.
C16_DetachFailuresAggregated ==
    InDetachLoop =>
       LET seen == SubSeq(loc.listed, 1, loc.idx - 1)
           selected == SelectSeq(seen, LAMBDA p : attachedNotRequested(iamRole.spec, p))
           detaches == CallsOf("DetachRolePolicy")
       IN  /\ Len(detaches) = Len(selected)
           /\ \A j \in DOMAIN detaches : detaches[j].target = selected[j].PolicyArn
           /\ FailuresOf(loc.errors, "DetachRolePolicy") = FailuresIn(detaches)
           /\ (\A i \in DOMAIN calls : calls[i].op = "GetCallerIdentity" => calls[i].ok)
                 => CountIssued("AttachRolePolicy") = Len(iamRole.spec.policies)
           /\ pc = "idle" =>
                 /\ loc.idx = Len(loc.listed) + 1
                 /\ result = loc.errors

\* a sync that selected five policies for detachment, two of which failed to
\* detach, returned those two failures after three successful detachments
C16_Witness ==
    /\ InDetachLoop
    /\ pc = "idle"
    /\ Len(CallsOf("DetachRolePolicy")) = 5
    /\ Len(FailuresOf(result, "DetachRolePolicy")) = 2
    /\ Cardinality(remote.attached) = 2

\* C17: when a PutRolePolicy of IAMClient.SyncIAMRole fails, the sync has, by
\* the time it returns, issued the remaining puts, gone on to the inline
\* listing (and its deletes) and, that listing read, to the attach and detach
\* categories, and it returns an error.
C17_InlinePutFailureContinues ==
    (/\ branch = "c_sync"
     /\ pc = "idle"
     /\ \E i \in DOMAIN calls : calls[i].op = "PutRolePolicy" /\ ~calls[i].ok) =>
        /\ result # Nil
        /\ CountIssued("PutRolePolicy") = Len(iamRole.spec.inlinePolicy)
        /\ Issued("ListRolePolicies")
        /\ (\A i \in DOMAIN calls : calls[i].op = "ListRolePolicies" => calls[i].ok)
              => Issued("ListAttachedRolePolicies")

\* C18: when attachPolicies has returned to IAMClient.SyncIAMRole, every
\* reference of the spec has either been attached (an AttachRolePolicy call)
\* or failed to resolve (a failed identity call): a failed resolution skips
\* that reference only.  The attachments made stay, and every failed
\* attachment is among the collected errors.
C18_ResolutionFailureSkipsOne ==
    (branch = "c_sync" /\ pc = "c_listAttachedPolicies") =>
       LET attaches == CallsOf("AttachRolePolicy")
           unresolved == SelectSeq(CallsOf("GetCallerIdentity"), LAMBDA c : ~c.ok)
           failures == FailuresIn(attaches)
       IN  /\ Len(attaches) + Len(unresolved) = Len(iamRole.spec.policies)
           /\ \A j \in DOMAIN attaches : attaches[j].ok => attaches[j].target \in remote.attached
           /\ \A j \in DOMAIN failures : In(loc.errors, failures[j])

\* C19: when a DetachRolePolicy of IAMClient.DeleteIAMRole fails, the teardown
\* has, by the time it returns, attempted the detachment of every listed
\* policy and issued DeleteRole, and it returns the detach failures.
C19_TeardownDetachFailureContinues ==
    (/\ branch = "c_delete"
     /\ pc = "idle"
     /\ \E i \in DOMAIN calls : calls[i].op = "DetachRolePolicy" /\ ~calls[i].ok) =>
        LET detaches == CallsOf("DetachRolePolicy")
        IN  /\ Len(detaches) = Len(loc.listed)
            /\ Issued("DeleteRole")
            /\ FailuresOf(result, "DetachRolePolicy") = FailuresIn(detaches)

\* the inline names and the attached policies a teardown gets listed: the
\* paginating client reads the whole listing, DeleteIAMRole of the controller
\* the one page a request without Marker returns (nothing if the request
\* failed)
TeardownListedInline ==
    IF branch = "c_delete" THEN InlineListing(entered.remote)
    ELSE IF \E i \in DOMAIN calls : calls[i].op = "ListRolePolicies" /\ calls[i].ok
    THEN PageOf(InlineListing(entered.remote), NoMarkerInput).items
    ELSE <<>>
TeardownListedAttached ==
    IF branch = "c_delete" THEN AttachedListing(entered.remote)
    ELSE PageOf(AttachedListing(entered.remote), NoMarkerInput).items

\* C20: in a teardown (DeleteIAMRole of the controller or of the client) no
\* inline deletion follows the attached listing or a detach; DeleteRole is
\* the last call, and when it is issued a delete has been attempted for every
\* listed inline policy and a detach for every listed attached policy.
C20_TeardownOrder ==
    branch \in {"teardown", "c_delete"} =>
       /\ \A i, j \in DOMAIN calls :
             (i < j /\ calls[i].op \in {"ListAttachedRolePolicies", "DetachRolePolicy"})
                => calls[j].op # "DeleteRolePolicy"
       /\ \A i \in DOMAIN calls : calls[i].op = "DeleteRole" => i = Len(calls)
       /\ Issued("DeleteRole") =>
             LET deletes == CallsOf("DeleteRolePolicy")
                 detaches == CallsOf("DetachRolePolicy")
             IN  /\ Len(deletes) = Len(TeardownListedInline)
                 /\ \A j \in DOMAIN deletes : deletes[j].target = <<TeardownListedInline[j]>>
                 /\ Len(detaches) = Len(TeardownListedAttached)
                 /\ \A j \in DOMAIN detaches :
                       detaches[j].target = TeardownListedAttached[j].PolicyArn

\* a teardown by the controller that issued DeleteRole after a failed inline
\* deletion and a failed detach
C20_Witness ==
    /\ branch = "teardown"
    /\ Issued("DeleteRole")
    /\ \E i \in DOMAIN calls : calls[i].op = "DeleteRolePolicy" /\ ~calls[i].ok
    /\ \E i \in DOMAIN calls : calls[i].op = "DetachRolePolicy" /\ ~calls[i].ok

\* C21: a Reconcile invocation that took the create or the sync path and has
\* returned emitted exactly one notification, a Warning whenever it returned
\* an error and a Normal one only when it returned success.
C21_NotificationMatchesResult ==
    (pc = "idle" /\ branch \in {"sync", "create"}) =>
        /\ Len(events) = 1
        /\ result # Nil => events[1].type = "Warning"
        /\ events[1].type = "Normal" => result = Nil

-----------------------------------------------------------------------------
(* Reconcile under a scheduler that delivers the request once and again
   after every invocation that returned an error; the document is not
   deleted and its spec does not change *)

\* Reconcile runs for the first request, and again when it returned an error
Reconcile_Redelivered ==
    /\ passes = 0 \/ result # Nil
    /\ passes' = 1
    /\ Reconcile_Request

NextRedelivery ==
    \/ Reconcile_Redelivered
    \/ iamRoleExists
    \/ CreateIAMRole_CreateRole
    \/ SyncIAMRole_UpdateRole
    \/ SyncIAMRole_UpdateAssumeRolePolicy
    \/ removeInlinePolicies_List
    \/ removeInlinePolicies_Delete
    \/ removeInlinePolicies_return
    \/ createInlinePolicies_Put
    \/ createInlinePolicies_return
    \/ attachPolicies_getArn
    \/ attachPolicies_Attach
    \/ attachPolicies_return
    \/ SyncIAMRole_ListAttachedRolePolicies
    \/ SyncIAMRole_Detach
    \/ SyncIAMRole_return
    \/ Reconcile_afterSync
    \/ Reconcile_afterCreate

\* every step that can be taken is eventually taken; the fault budget makes
\* the remote calls stop failing
SpecRedelivery == Init /\ [][NextRedelivery]_vars /\ WF_vars(NextRedelivery)

\* the calls that change the remote role
Mutations == {"CreateRole", "UpdateRole", "UpdateAssumeRolePolicy", "PutRolePolicy",
              "DeleteRolePolicy", "AttachRolePolicy", "DetachRolePolicy"}

\* the remote role exists and its fields, inline policies and attached
\* policies are those of the stored spec
RemoteMatchesSpec ==
    LET spec == store.spec
        inl == spec.inlinePolicy
    IN  /\ remote.exists
        /\ remote.description = spec.description
        /\ remote.maxSessionDuration = spec.maxSessionDuration
        /\ remote.trust = spec.trustRelationship
        /\ RemoteInlineNames = {inl[i].name : i \in DOMAIN inl}
        /\ \A i \in DOMAIN inl :
              (\A j \in DOMAIN inl : j > i => inl[j].name # inl[i].name)
                 => remote.inline[inl[i].name] = inl[i].value
        /\ remote.attached = ResolvedPolicies(spec)

\* Reconcile returned success and no mutation it attempted in that pass failed
C22_NoSuccessAfterFailedMutation ==
    (pc = "idle" /\ branch \in {"sync", "create"} /\ result = Nil) =>
        \A i \in DOMAIN calls : calls[i].op \in Mutations => calls[i].ok

\* Reconcile has returned success and the remote role matches the spec
C22_Healed == pc = "idle" /\ passes > 0 /\ result = Nil /\ RemoteMatchesSpec

\* C22: under re-delivery after every error, with an unchanged spec and remote
\* calls that eventually stop failing, Reconcile eventually has returned
\* success with the remote role matching the spec, and it never returns
\* success while a mutation it attempted in that pass failed.
C22_SelfHealing == []C22_NoSuccessAfterFailedMutation /\ <>C22_Healed

-----------------------------------------------------------------------------
(* The creation of both generations of the code: Reconcile for a document
   whose role is not found remotely (a Reconcile that finds the role is not
   followed here), and CreateIAMRole of the client *)

NextCreate ==
    \/ Reconcile_Get
    \/ iamRoleExists
    \/ CreateIAMRole_CreateRole
    \/ createInlinePolicies_Put
    \/ createInlinePolicies_return
    \/ attachPolicies_getArn
    \/ attachPolicies_Attach
    \/ attachPolicies_return
    \/ Reconcile_afterCreate
    \/ IAMClient_CreateIAMRole_CreateRole
    \/ IAMClient_createInlinePolicies_Put
    \/ IAMClient_createInlinePolicies_return
    \/ IAMClient_attachPolicies_getArn
    \/ IAMClient_attachPolicies_Attach
    \/ IAMClient_attachPolicies_return

SpecCreate == Init /\ [][NextCreate]_vars

\* the calls of the attach category: the resolution of a reference and the attach
AttachCategory == {"GetCallerIdentity", "AttachRolePolicy"}

\* C23: in CreateIAMRole (of the controller or of the client) every put and
\* every call of the attach category follows a CreateRole that succeeded (so
\* none is issued when CreateRole fails); the puts are those of the spec's
\* inline policies in order, the attaches those of the spec's references in
\* order; no put follows a call of the attach category, and a call of the
\* attach category is issued only after a put was attempted for every inline
\* policy; a creation that returns success has attached every reference.
C23_CreateOrder ==
    branch \in {"create", "c_create"} =>
       LET spec == iamRole.spec
           puts == CallsOf("PutRolePolicy")
           attaches == CallsOf("AttachRolePolicy")
       IN  /\ CountIssued("CreateRole") <= 1
           /\ \A j \in DOMAIN calls :
                 calls[j].op \in AttachCategory \cup {"PutRolePolicy"}
                    => \E i \in DOMAIN calls :
                          i < j /\ calls[i].op = "CreateRole" /\ calls[i].ok
           /\ Len(puts) <= Len(spec.inlinePolicy)
           /\ \A j \in DOMAIN puts : puts[j].target = <<spec.inlinePolicy[j].name>>
           /\ Len(attaches) <= Len(spec.policies)
           /\ \A j \in DOMAIN attaches : attaches[j].target = getArn(spec.policies[j], Account)
           /\ \A i, j \in DOMAIN calls :
                 (i < j /\ calls[i].op \in AttachCategory) => calls[j].op # "PutRolePolicy"
           /\ (\E i \in DOMAIN calls : calls[i].op \in AttachCategory)
                 => Len(puts) = Len(spec.inlinePolicy)
           /\ (pc = "idle" /\ \E i \in DOMAIN calls : calls[i].op = "CreateRole" /\ calls[i].ok)
                 => Len(puts) = Len(spec.inlinePolicy)
           /\ (pc = "idle" /\ Issued("CreateRole") /\ result = Nil)
                 => Len(attaches) = Len(spec.policies)

\* a creation by the controller that returned success after two puts, the
\* resolution of a reference and its attach
C23_Witness ==
    /\ branch = "create"
    /\ pc = "idle"
    /\ result = Nil
    /\ CountIssued("PutRolePolicy") = 2
    /\ Issued("GetCallerIdentity")
    /\ \E i \in DOMAIN calls : calls[i].op = "AttachRolePolicy" /\ calls[i].ok

-----------------------------------------------------------------------------
(* The sync of both generations of the code: Reconcile for a document whose
   role is found remotely (a Reconcile that does not find the role is not
   followed here), and SyncIAMRole of the client *)

NextSync ==
    \/ Reconcile_Get
    \/ iamRoleExists
    \/ SyncIAMRole_UpdateRole
    \/ SyncIAMRole_UpdateAssumeRolePolicy
    \/ removeInlinePolicies_List
    \/ removeInlinePolicies_Delete
    \/ removeInlinePolicies_return
    \/ createInlinePolicies_Put
    \/ createInlinePolicies_return
    \/ attachPolicies_getArn
    \/ attachPolicies_Attach
    \/ attachPolicies_return
    \/ SyncIAMRole_ListAttachedRolePolicies
    \/ SyncIAMRole_Detach
    \/ SyncIAMRole_return
    \/ Reconcile_afterSync
    \/ IAMClient_SyncIAMRole_GetRole
    \/ IAMClient_SyncIAMRole_UpdateRoleDescription
    \/ IAMClient_SyncIAMRole_UpdateRole
    \/ IAMClient_SyncIAMRole_UpdateAssumeRolePolicy
    \/ IAMClient_createInlinePolicies_Put
    \/ IAMClient_createInlinePolicies_return
    \/ IAMClient_listInlinePolicies_first
    \/ IAMClient_listInlinePolicies_next
    \/ IAMClient_listInlinePolicies_return
    \/ IAMClient_SyncIAMRole_DeleteRolePolicy
    \/ IAMClient_SyncIAMRole_callAttachPolicies
    \/ IAMClient_attachPolicies_getArn
    \/ IAMClient_attachPolicies_Attach
    \/ IAMClient_attachPolicies_return
    \/ IAMClient_listAttachedPolicies_first
    \/ IAMClient_listAttachedPolicies_next
    \/ IAMClient_listAttachedPolicies_return
    \/ IAMClient_SyncIAMRole_Detach
    \/ IAMClient_SyncIAMRole_return

SpecSync == Init /\ [][NextSync]_vars

\* the calls of a sync by category
FieldCategory == {"UpdateRoleDescription", "UpdateRole", "UpdateAssumeRolePolicy"}
InlineCategory == {"PutRolePolicy", "ListRolePolicies", "DeleteRolePolicy"}
DetachCategory == {"ListAttachedRolePolicies", "DetachRolePolicy"}

\* C24: in a sync (SyncIAMRole of the controller or of the client) no field
\* update follows a call of the inline, attach or detach category, no inline
\* put follows a call of the attach or detach category, and a call of the
\* attach or detach category is issued only after a put was attempted for
\* every inline policy of the spec, in the spec's order.
C24_SyncCategoryOrder ==
    branch \in {"sync", "c_sync"} =>
       LET spec == iamRole.spec
           puts == CallsOf("PutRolePolicy")
           later == AttachCategory \cup DetachCategory
       IN  /\ \A i, j \in DOMAIN calls :
                 (i < j /\ calls[i].op \in InlineCategory \cup later)
                    => calls[j].op \notin FieldCategory
           /\ \A i, j \in DOMAIN calls :
                 (i < j /\ calls[i].op \in later) => calls[j].op # "PutRolePolicy"
           /\ Len(puts) <= Len(spec.inlinePolicy)
           /\ \A j \in DOMAIN puts : puts[j].target = <<spec.inlinePolicy[j].name>>
           /\ (\E i \in DOMAIN calls : calls[i].op \in later)
                 => Len(puts) = Len(spec.inlinePolicy)

\* a sync by the controller that updated the fields, deleted an inline
\* policy, put two, attached a policy and detached one
C24_Witness ==
    /\ branch = "sync"
    /\ pc = "idle"
    /\ Issued("UpdateAssumeRolePolicy")
    /\ Issued("DeleteRolePolicy")
    /\ CountIssued("PutRolePolicy") = 2
    /\ Issued("AttachRolePolicy")
    /\ Issued("DetachRolePolicy")

\* an invocation on the sync or the teardown path has issued no write to the
\* desired-state store
C25_NoUpdateIssued == branch \in {"sync", "teardown"} => ~Issued("Update")

\* a step of an invocation on the sync or the teardown path leaves the stored
\* document and the object's status as they are
C25_StepKeepsStore ==
    (pc # "idle" /\ branch' \in {"sync", "teardown"}) =>
        /\ store' = store
        /\ iamRole'.status = iamRole.status

\* C25: a Reconcile invocation that takes the sync path (success or failure)
\* or the teardown path issues no write to the desired-state store and
\* changes neither the stored document nor the status of the object it holds.
C25_SyncAndTeardownWriteNothing == []C25_NoUpdateIssued /\ [][C25_StepKeepsStore]_vars

\* a sync that returned success for a document whose status is empty, the
\* role being present remotely
C25_Witness ==
    /\ branch = "sync"
    /\ pc = "idle"
    /\ result = Nil
    /\ Issued("AttachRolePolicy")
    /\ store.status = ZeroStatus
    /\ iamRole.status = ZeroStatus

\* C26: when the teardown run by Reconcile issues DeleteRole, it has issued
\* a delete for every inline policy and a detach for every managed policy the
\* role held, on whatever page of the listings; and the detach loop of the
\* sync run by Reconcile starts from all the policies attached to the role.
C26_ControllerCoversAllPages ==
    /\ (branch = "teardown" /\ Issued("DeleteRole")) =>
          /\ \A n \in InlineNames :
                entered.remote.inline[n] # NoDoc =>
                   \E i \in DOMAIN calls :
                      calls[i].op = "DeleteRolePolicy" /\ calls[i].target = <<n>>
          /\ \A arn \in entered.remote.attached :
                \E i \in DOMAIN calls :
                   calls[i].op = "DetachRolePolicy" /\ calls[i].target = arn
    /\ (branch = "sync" /\ pc = "SyncIAMRole_Detach" /\ loc.idx = 1) =>
          {loc.listed[i].PolicyArn : i \in DOMAIN loc.listed} = remote.attached

-----------------------------------------------------------------------------
(* The teardown by Reconcile under a scheduler that delivers the request
   when the document is deleted and again after every invocation that
   returned an error *)

NextTeardownRedelivery ==
    \/ DeleteDocument
    \/ ~store.exists /\ Reconcile_Redelivered
    \/ removeInlinePolicies_List
    \/ removeInlinePolicies_Delete
    \/ removeInlinePolicies_return
    \/ DeleteIAMRole_ListAttachedRolePolicies
    \/ DeleteIAMRole_Detach
    \/ DeleteIAMRole_DeleteRole
    \/ Reconcile_afterDelete

\* every step that can be taken is eventually taken; the fault budget makes
\* the remote calls stop failing
SpecTeardownRedelivery ==
    Init /\ [][NextTeardownRedelivery]_vars /\ WF_vars(NextTeardownRedelivery)

\* a Reconcile for a name absent from the store and from the remote service
\* returned without error
C27_AbsentReturnsSuccess ==
    (branch = "teardown" /\ pc = "idle" /\ ~entered.remote.exists) => result = Nil

\* a teardown invocation has returned success
C27_TeardownSucceeded == branch = "teardown" /\ pc = "idle" /\ result = Nil

\* C27: once the document is deleted, under re-delivery after every error and
\* remote calls that eventually stop failing, some teardown invocation
\* eventually returns success; and a Reconcile for a name absent from both
\* the store and the remote service returns without error.
C27_TeardownQuiesces == []C27_AbsentReturnsSuccess /\ <>C27_TeardownSucceeded

-----------------------------------------------------------------------------
(* The paginating readers of the client (run here by its DeleteIAMRole)
   against services that send the truncated pages of a listing with the
   marker of the next page or with an empty marker *)

\* the remote roles of Init, each also at a service that sends empty markers
PagingRemoteChoices ==
    RemoteChoices \cup {[r EXCEPT !.emptyMarker = TRUE] : r \in RemoteChoices \ {NoRole}}

InitPaging ==
    /\ store \in {[exists |-> TRUE, spec |-> sp, status |-> ZeroStatus] : sp \in SpecChoices}
    /\ remote \in PagingRemoteChoices
    /\ iamRole = ZeroIAMRole
    /\ branch = "none"
    /\ pc = "idle"
    /\ loc = LocInit
    /\ calls = <<>>
    /\ events = <<>>
    /\ result = Nil
    /\ faults = 0
    /\ passes = 0
    /\ entered = [branch |-> "none", result |-> Nil, remote |-> remote]

NextPaging ==
    \/ IAMClient_DeleteIAMRole
    \/ IAMClient_listInlinePolicies_first
    \/ IAMClient_listInlinePolicies_next
    \/ IAMClient_listInlinePolicies_return
    \/ IAMClient_DeleteIAMRole_DeleteRolePolicy
    \/ IAMClient_DeleteIAMRole_callListAttachedPolicies
    \/ IAMClient_listAttachedPolicies_first
    \/ IAMClient_listAttachedPolicies_next
    \/ IAMClient_listAttachedPolicies_return
    \/ IAMClient_DeleteIAMRole_Detach
    \/ IAMClient_DeleteIAMRole_DeleteRole

\* every step that can be taken is eventually taken
SpecPaging == InitPaging /\ [][NextPaging]_vars /\ WF_vars(NextPaging)

\* the positions inside listInlinePolicies and listAttachedPolicies
ListingPcs == {"c_listInlinePolicies", "c_listInlinePolicies_loop",
               "c_listAttachedPolicies", "c_listAttachedPolicies_loop"}

\* the index of the first item of the page a list request asks for
RequestedStart(call) == IF call.target = <<>> THEN 1 ELSE call.target[1][1]

\* the k-th request of a listing asks for the page that follows the k-1
\* pages read before it
C28_NextPageRequested ==
    branch = "c_delete" =>
       \A i \in DOMAIN calls :
          calls[i].op \in ListOps =>
             LET k == Cardinality({j \in 1..i : calls[j].op = calls[i].op})
             IN  RequestedStart(calls[i]) = (k - 1) * PageSize + 1

\* a reader that has started returns
C28_ListingReturns == (pc \in ListingPcs) ~> (pc \notin ListingPcs)

\* C28: listInlinePolicies and listAttachedPolicies terminate at every service
\* whose listing is a finite sequence of pages ending in a page that is not
\* truncated, whether its truncated pages carry the next page's marker or an
\* empty marker, and each request of the loop asks for the page that follows
\* the one just read.
C28_PaginationTerminates == []C28_NextPageRequested /\ C28_ListingReturns

=============================================================================
